---- MODULE Spec2Model ----
(***************************************************************************)
(* A model of the learning-artifacts backend:                              *)
(*   - the retry engine of utils/retry_handler.py (with_retry,             *)
(*     should_retry, exponential_backoff_with_jitter) and the call sites   *)
(*     of services/claude_service.py that are, or are not, wrapped by it;  *)
(*   - the session handlers of routers/sessions.py (update_session,        *)
(*     submit_answer, submit_answer_stream, request_hint) running          *)
(*     concurrently over the sessions and modules tables.                  *)
(*   - the evaluation of services/claude_service.py: evaluate_answer and   *)
(*     the streaming decoder evaluate_answer_stream, character by          *)
(*     character over the provider's output.                               *)
(* Delays are in milliseconds. An Optional value is a sequence of length   *)
(* at most one (<<>> is None). A Python str is the sequence of its         *)
(* characters.                                                             *)
(***************************************************************************)
EXTENDS Integers, Sequences, FiniteSets, TLC

VARIABLES
    \* ---- retry engine (one invocation of a provider call) ----
    func,            \* the provider call that is invoked
    is_async,        \* inspect.iscoroutinefunction(func)
    max_retries,     \* the decorator's max_retries
    attempt,         \* with_retry's local attempt
    last_exception,  \* with_retry's local last_exception (Optional)
    rpc,             \* position of the wrapper: "call", "sleep", "returned", "raised"
    delay,           \* the delay should_retry returned for the pending sleep
    waits,           \* the delays slept so far, in order
    trace,           \* outcome of every invocation of func so far, in order
    raised,          \* the exception that left the wrapper (Optional)
    timeout,         \* the timeout the decorator was given, in seconds (0: not decorated)
    given,           \* the keyword arguments the caller passed (dict)
    call_kwargs,     \* the wrapper's kwargs
    calls,           \* the keyword arguments of every invocation of func so far, in order
    \* ---- session handlers ----
    sessions,        \* sessions table: session id -> row
    exercises,       \* modules.exercises of the one module: exercise -> hint list
    handler,         \* handler id -> the running request handler's locals
    started,         \* number of requests started so far
    submitted,       \* session id -> exercise_index -> submissions accepted so far (history)
    faults,          \* number of failed database calls, failed LLM calls and foreign requests so far
    sequential,      \* the client waits for each response before its next request
    checked_out,     \* handler id -> connections of the pool the handler holds
    last_query,      \* handler id -> how the request's last execute_query left the pool
    \* ---- one run of evaluate_answer_stream ----
    raw,             \* the provider's whole output for the run
    response_text,   \* evaluate_answer_stream's local response_text
    feedback_buffer, \* its local feedback_buffer
    inside_feedback, \* its local inside_feedback
    escape_next,     \* its local escape_next
    yielded,         \* the events it has yielded so far, in order
    spc,             \* position of the generator: "stream", "done", "raised"
    returned         \* what evaluate_answer makes of the same output (Optional)

rvars == <<func, is_async, max_retries, attempt, last_exception, rpc, delay, waits, trace, raised,
           timeout, given, call_kwargs, calls>>
svars == <<sessions, exercises, handler, started, submitted, faults, sequential, checked_out, last_query>>
dvars == <<raw, response_text, feedback_buffer, inside_feedback, escape_next, yielded, spc, returned>>
vars == <<func, is_async, max_retries, attempt, last_exception, rpc, delay, waits, trace, raised,
          timeout, given, call_kwargs, calls,
          sessions, exercises, handler, started, submitted, faults, sequential, checked_out, last_query,
          raw, response_text, feedback_buffer, inside_feedback, escape_next, yielded, spc, returned>>

Min(a, b) == IF a <= b THEN a ELSE b

RECURSIVE Pow2(_)
Pow2(n) == IF n <= 0 THEN 1 ELSE 2 * Pow2(n - 1)

(***************************************************************************)
(* Bounds of the model                                                     *)
(***************************************************************************)
MaxRetriesBound == 2     \* max_retries ranges over 0..MaxRetriesBound
NumHandlers == 2         \* request handlers that can be in flight at once
MaxRequests == 2         \* requests a concurrent client starts in one behaviour
MaxRequestsSeq == 3      \* requests a sequential client starts in one behaviour
NumExercises == 2        \* exercises of the module
MaxFaults == 1           \* failed database calls, failed LLM calls and foreign requests in one behaviour
MaxChunk == 2            \* characters in one text chunk of the provider's stream
MaxBackoffAttempt == 10  \* attempt numbers the backoff is computed for

(***************************************************************************)
(* config/constants.py                                                     *)
(***************************************************************************)
MAX_HINTS == 3
MAX_RETRIES == 2
RetryableStatusCodesWith400 == {400, 429, 500, 502, 503, 504}
RETRYABLE_STATUS_CODES == {429, 500, 502, 503, 504}
BASE_DELAY_MS == 1000
MAX_DELAY_MS == 60000

(***************************************************************************)
(* Provider errors. cls is the exception class; status_code is meaningful  *)
(* for status errors; retry_after is the attribute of that name on the     *)
(* exception object; header_retry_after is the retry-after header of the   *)
(* provider's response (what utils/error_handler.extract_retry_after       *)
(* falls back to).                                                         *)
(***************************************************************************)
Err(c, s, ra, hra) == [cls |-> c, status_code |-> s, retry_after |-> ra, header_retry_after |-> hra]

RateLimitErrors ==
    { Err("RateLimitError", 429, <<>>, <<>>),
      Err("RateLimitError", 429, <<30>>, <<>>),
      Err("RateLimitError", 429, <<>>, <<30>>),
      Err("RateLimitError", 429, <<0>>, <<>>) }

StatusErrors == { Err("APIStatusError", c, <<>>, <<>>) : c \in {400, 404, 429, 503} }

Errors ==
    RateLimitErrors \cup StatusErrors \cup
    { Err("APITimeoutError", 0, <<>>, <<>>),
      Err("APIError", 0, <<>>, <<>>),
      Err("ValueError", 0, <<>>, <<>>) }

Ok == [cls |-> "ok", status_code |-> 0, retry_after |-> <<>>, header_retry_after |-> <<>>]

\* isinstance(e, c) over the anthropic exception hierarchy:
\* RateLimitError < APIStatusError < APIError, APITimeoutError < APIError.
IsInstance(e, c) ==
    CASE c = "RateLimitError"  -> e.cls = "RateLimitError"
      [] c = "APIStatusError"  -> e.cls \in {"RateLimitError", "APIStatusError"}
      [] c = "APITimeoutError" -> e.cls = "APITimeoutError"
      [] c = "APIError"        -> e.cls \in {"RateLimitError", "APIStatusError", "APITimeoutError", "APIError"}
      [] OTHER                 -> e.cls = c

RETRYABLE_EXCEPTIONS == {"RateLimitError", "APITimeoutError", "APIError"}

\* random.uniform(0.5, 1.0), in thousandths: the two ends and a value inside
Jitter == {500, 750, 1000}

\* a backoff that is not capped at max_delay
BackoffUncapped(a, base_delay, max_delay, j) == (base_delay * Pow2(a - 1) * j) \div 1000

\* exponential_backoff_with_jitter(attempt, base_delay, max_delay), jitter factor j
exponential_backoff_with_jitter(a, base_delay, max_delay, j) ==
    (Min(base_delay * Pow2(a - 1), max_delay) * j) \div 1000

\* the budget check made one attempt too late
BudgetExhaustedLate(a, mr) == a > mr + 1

\* if attempt > max_retries: return False, 0.0
BudgetExhausted(a, mr) == a > mr

\* should_retry(exception, attempt, max_retries) -> <<should_retry, delay>>;
\* j is the jitter factor its backoff draws
should_retry(e, a, mr, j) ==
    IF BudgetExhausted(a, mr) THEN <<FALSE, 0>>
    ELSE IF IsInstance(e, "RateLimitError") THEN
        \* retry_after = getattr(exception, "retry_after", None); if retry_after:
        IF e.retry_after # <<>> /\ e.retry_after[1] # 0
        THEN <<TRUE, e.retry_after[1] * 1000>>
        ELSE <<TRUE, exponential_backoff_with_jitter(a, 2000, MAX_DELAY_MS, j)>>
    ELSE IF IsInstance(e, "APIStatusError") THEN
        IF e.status_code \in RETRYABLE_STATUS_CODES
        THEN <<TRUE, exponential_backoff_with_jitter(a, BASE_DELAY_MS, MAX_DELAY_MS, j)>>
        ELSE <<FALSE, 0>>
    ELSE IF IsInstance(e, "APITimeoutError") THEN
        <<TRUE, exponential_backoff_with_jitter(a, 2000, MAX_DELAY_MS, j)>>
    ELSE IF IsInstance(e, "APIError") THEN
        <<TRUE, exponential_backoff_with_jitter(a, BASE_DELAY_MS, MAX_DELAY_MS, j)>>
    ELSE <<FALSE, 0>>

\* The provider calls of claude_service.py; "function" stands for any other
\* function a caller decorates (the tests' sync functions included).
Funcs == {"_call_claude_for_evaluation", "_call_claude_for_evaluation_stream",
          "_call_claude_for_hints", "function"}

\* @with_retry is applied to the definition of f
Decorated(f) == f # "_call_claude_for_evaluation_stream"

\* the provider calls are async def; a decorated plain function is not
IsCoroutineFunction(f, a) == IF f = "function" THEN a ELSE TRUE

\* the max_retries the decorator was given
DecoratorMaxRetries(f, mr) == IF f = "function" THEN mr ELSE MAX_RETRIES

\* config/constants.py: ClaudeConstants
EVALUATION_TIMEOUT == 60
GENERATION_TIMEOUT == 90

\* the timeout the decorator was given: the constants of claude_service.py, and
\* for another function the default of with_retry or the 30.0 of the tests
DecoratorTimeouts(f) ==
    CASE f = "_call_claude_for_evaluation" -> {EVALUATION_TIMEOUT}
      [] f = "_call_claude_for_hints" -> {GENERATION_TIMEOUT}
      [] f = "_call_claude_for_evaluation_stream" -> {0}
      [] OTHER -> {30, 60}

\* the keyword arguments of the call (a dict: keyword -> value): claude_service.py
\* passes its arguments by position; another caller may pass a timeout
CallerKwargs(f) ==
    IF f = "function" THEN {<<>>, "timeout" :> 60, "timeout" :> 45} ELSE {<<>>}

\* kwargs["timeout"] = timeout, whatever the caller passed
SetTimeout(kw, t) == ("timeout" :> t) @@ kw

\* if "timeout" not in kwargs and timeout: kwargs["timeout"] = timeout
AddTimeout(kw, t) ==
    IF "timeout" \notin DOMAIN kw /\ t # 0 THEN kw @@ ("timeout" :> t) ELSE kw

\* the wrapper is entered: attempt = 0, last_exception = None; the session
\* handlers are not running
RetryInit ==
    /\ func \in Funcs
    /\ \E a \in BOOLEAN : is_async = IsCoroutineFunction(func, a)
    /\ \E mr \in 0..MaxRetriesBound : max_retries = DecoratorMaxRetries(func, mr)
    /\ attempt = 0
    /\ last_exception = <<>>
    /\ rpc = "call"
    /\ delay = 0
    /\ waits = <<>>
    /\ trace = <<>>
    /\ raised = <<>>
    /\ timeout \in DecoratorTimeouts(func)
    /\ given \in CallerKwargs(func)
    /\ call_kwargs = (IF Decorated(func) THEN AddTimeout(given, timeout) ELSE given)
    /\ calls = <<>>
    /\ sessions = <<>>
    /\ exercises = <<>>
    /\ handler = <<>>
    /\ started = 0
    /\ submitted = <<>>
    /\ faults = 0
    /\ sequential = TRUE
    /\ checked_out = <<>>
    /\ last_query = <<>>
    /\ raw = <<>>
    /\ response_text = <<>>
    /\ feedback_buffer = <<>>
    /\ inside_feedback = FALSE
    /\ escape_next = FALSE
    /\ yielded = <<>>
    /\ spc = "idle"
    /\ returned = <<>>

\* One iteration of the wrapper's while loop whose call returns.
RetryCallReturns ==
    /\ rpc = "call"
    /\ Decorated(func)
    /\ attempt <= max_retries
    /\ attempt' = attempt + 1
    /\ trace' = Append(trace, Ok)
    /\ rpc' = "returned"
    /\ calls' = Append(calls, call_kwargs)
    /\ UNCHANGED <<func, is_async, max_retries, last_exception, delay, waits, raised,
                   timeout, given, call_kwargs, svars, dvars>>

\* One iteration of the wrapper's while loop whose call raises e.
RetryCallRaises ==
    /\ rpc = "call"
    /\ Decorated(func)
    /\ attempt <= max_retries
    /\ \E e \in Errors, j \in Jitter :
        /\ attempt' = attempt + 1
        /\ trace' = Append(trace, e)
        /\ IF \E c \in RETRYABLE_EXCEPTIONS : IsInstance(e, c)
           THEN /\ last_exception' = <<e>>
                /\ LET sr == should_retry(e, attempt + 1, max_retries, j) IN
                   IF sr[1]
                   THEN /\ rpc' = "sleep"
                        /\ delay' = sr[2]
                        /\ raised' = raised
                   ELSE /\ rpc' = "raised"
                        /\ raised' = <<e>>
                        /\ delay' = delay
           ELSE /\ rpc' = "raised"
                /\ raised' = <<e>>
                /\ UNCHANGED <<last_exception, delay>>
    /\ calls' = Append(calls, call_kwargs)
    /\ UNCHANGED <<func, is_async, max_retries, waits, timeout, given, call_kwargs, svars, dvars>>

\* asyncio.sleep(delay) / time.sleep(delay), then `continue`: the loop condition
\* is evaluated again and, when it fails, the code after the loop raises
\* last_exception.
RetrySleep ==
    /\ rpc = "sleep"
    /\ waits' = Append(waits, delay)
    /\ IF attempt <= max_retries
       THEN rpc' = "call" /\ raised' = raised
       ELSE rpc' = "raised" /\ raised' = last_exception
    /\ UNCHANGED <<func, is_async, max_retries, attempt, last_exception, delay, trace,
                   timeout, given, call_kwargs, calls, svars, dvars>>

\* A provider call that is not decorated: one call, its result or its exception.
DirectCall ==
    /\ rpc = "call"
    /\ ~Decorated(func)
    /\ \E o \in Errors \cup {Ok} :
        /\ trace' = Append(trace, o)
        /\ IF o = Ok
           THEN rpc' = "returned" /\ raised' = raised
           ELSE rpc' = "raised" /\ raised' = <<o>>
    /\ calls' = Append(calls, call_kwargs)
    /\ UNCHANGED <<func, is_async, max_retries, attempt, last_exception, delay, waits,
                   timeout, given, call_kwargs, svars, dvars>>

RetryNext ==
    \/ RetryCallReturns
    \/ RetryCallRaises
    \/ RetrySleep
    \/ DirectCall

(***************************************************************************)
(* The evaluation of services/claude_service.py: evaluate_answer and the   *)
(* streaming decoder evaluate_answer_stream.                               *)
(*                                                                         *)
(* A Python str is the sequence of its characters. A JSON value is a       *)
(* record [kind, str, num, obj]; a dict is a function from its keys (str)  *)
(* to JSON values.                                                         *)
(***************************************************************************)
SetMin(S) == CHOOSE x \in S : \A y \in S : x <= y
SetMax(S) == CHOOSE x \in S : \A y \in S : x >= y

\* the character U+0060, which a TLA+ string cannot hold
Backtick == "U+0060"

\* str.startswith, str.endswith, the in operator of str
StartsWith(s, p) == Len(s) >= Len(p) /\ SubSeq(s, 1, Len(p)) = p
EndsWith(s, p) == Len(s) >= Len(p) /\ SubSeq(s, Len(s) - Len(p) + 1, Len(s)) = p
Contains(s, p) == \E i \in 1..(Len(s) - Len(p) + 1) : SubSeq(s, i, i + Len(p) - 1) = p

\* str.find and str.rfind of one character: a 0-based index, or -1
Find(s, c) ==
    LET at == { i \in 1..Len(s) : s[i] = c } IN IF at = {} THEN -1 ELSE SetMin(at) - 1
RFind(s, c) ==
    LET at == { i \in 1..Len(s) : s[i] = c } IN IF at = {} THEN -1 ELSE SetMax(at) - 1

\* str.strip()
Whitespace == {" ", "\n", "\t", "\r"}
Strip(s) ==
    LET at == { i \in 1..Len(s) : s[i] \notin Whitespace }
    IN IF at = {} THEN <<>> ELSE SubSeq(s, SetMin(at), SetMax(at))

\* _extract_json_from_response
extract_json_from_response(response) ==
    LET text == Strip(response)
        start_idx == Find(text, "{")
        end_idx == RFind(text, "}") + 1
    IN IF StartsWith(text, <<Backtick, Backtick, Backtick>>) /\ start_idx # -1 /\ end_idx > start_idx
       THEN SubSeq(text, start_idx + 1, end_idx)
       ELSE text

\* ---- json.loads, for texts made of objects, strings and unsigned integers ----
JStr(s) == [kind |-> "string", str |-> s, num |-> 0, obj |-> <<>>]
JNum(n) == [kind |-> "number", str |-> <<>>, num |-> n, obj |-> <<>>]
JObj(o) == [kind |-> "object", str |-> <<>>, num |-> 0, obj |-> o]
JNone == [kind |-> "none", str |-> <<>>, num |-> 0, obj |-> <<>>]

\* a failed parse (json.JSONDecodeError), a parse that consumed text[.. next - 1]
ParseFails == [ok |-> FALSE, next |-> 0, value |-> JNone]
Parsed(n, v) == [ok |-> TRUE, next |-> n, value |-> v]

Digits == {"0", "1", "2", "3", "4", "5", "6", "7", "8", "9"}
DigitValue(c) ==
    CASE c = "0" -> 0 [] c = "1" -> 1 [] c = "2" -> 2 [] c = "3" -> 3 [] c = "4" -> 4
      [] c = "5" -> 5 [] c = "6" -> 6 [] c = "7" -> 7 [] c = "8" -> 8 [] c = "9" -> 9

\* the character an escape sequence of a JSON string stands for
EscapedBy(c) ==
    CASE c = "n" -> "\n" [] c = "t" -> "\t" [] c = "r" -> "\r" [] OTHER -> c
Escapable == {"\"", "\\", "/", "n", "t", "r"}

RECURSIVE SkipWhitespace(_, _)
SkipWhitespace(text, i) ==
    IF i <= Len(text) /\ text[i] \in Whitespace THEN SkipWhitespace(text, i + 1) ELSE i

RECURSIVE ParseDigits(_, _, _)
ParseDigits(text, i, acc) ==
    IF i <= Len(text) /\ text[i] \in Digits
    THEN ParseDigits(text, i + 1, 10 * acc + DigitValue(text[i]))
    ELSE Parsed(i, JNum(acc))

\* the characters of a string after its opening quote; a control character
\* inside a string and an unknown escape are errors
RECURSIVE ParseStringBody(_, _, _)
ParseStringBody(text, i, acc) ==
    IF i > Len(text) \/ text[i] \in {"\n", "\t", "\r"} THEN ParseFails
    ELSE IF text[i] = "\"" THEN Parsed(i + 1, JStr(acc))
    ELSE IF text[i] = "\\"
         THEN IF i + 1 <= Len(text) /\ text[i + 1] \in Escapable
              THEN ParseStringBody(text, i + 2, Append(acc, EscapedBy(text[i + 1])))
              ELSE ParseFails
    ELSE ParseStringBody(text, i + 1, Append(acc, text[i]))

RECURSIVE ParseValue(_, _)
RECURSIVE ParseMembers(_, _, _)
\* the members of an object from the key at text[i] on; a repeated key keeps
\* its last value
ParseMembers(text, i, obj) ==
    IF i > Len(text) \/ text[i] # "\"" THEN ParseFails
    ELSE LET key == ParseStringBody(text, i + 1, <<>>)
             colon == SkipWhitespace(text, key.next)
         IN IF ~key.ok \/ colon > Len(text) \/ text[colon] # ":" THEN ParseFails
            ELSE LET val == ParseValue(text, SkipWhitespace(text, colon + 1))
                     after == SkipWhitespace(text, val.next)
                     members == (key.value.str :> val.value) @@ obj
                 IN IF ~val.ok \/ after > Len(text) THEN ParseFails
                    ELSE IF text[after] = "," THEN ParseMembers(text, SkipWhitespace(text, after + 1), members)
                    ELSE IF text[after] = "}" THEN Parsed(after + 1, JObj(members))
                    ELSE ParseFails

ParseValue(text, i) ==
    IF i > Len(text) THEN ParseFails
    ELSE IF text[i] = "\"" THEN ParseStringBody(text, i + 1, <<>>)
    ELSE IF text[i] \in Digits THEN ParseDigits(text, i, 0)
    ELSE IF text[i] = "{"
         THEN LET first == SkipWhitespace(text, i + 1)
              IN IF first <= Len(text) /\ text[first] = "}" THEN Parsed(first + 1, JObj(<<>>))
                 ELSE ParseMembers(text, first, <<>>)
    ELSE ParseFails

\* json.loads: one value between optional whitespace, and nothing after it
json_loads(text) ==
    LET val == ParseValue(text, SkipWhitespace(text, 1))
    IN IF val.ok /\ SkipWhitespace(text, val.next) = Len(text) + 1 THEN val ELSE ParseFails

\* ---- the checks both evaluations make on the parsed response ----
\* keys of the evaluation object and of the events
KeyAssessment == <<"a", "s", "s", "e", "s", "s", "m", "e", "n", "t">>
KeyInternalScore == <<"i", "n", "t", "e", "r", "n", "a", "l", "_", "s", "c", "o", "r", "e">>
KeyFeedback == <<"f", "e", "e", "d", "b", "a", "c", "k">>
KeyType == <<"t", "y", "p", "e">>
KeyText == <<"t", "e", "x", "t">>
KeyMessage == <<"m", "e", "s", "s", "a", "g", "e">>

required_fields == {KeyAssessment, KeyInternalScore, KeyFeedback}

valid_assessments == {<<"s", "t", "r", "o", "n", "g">>, <<"d", "e", "v", "e", "l", "o", "p", "i", "n", "g">>, <<"b", "e", "g", "i", "n", "n", "i", "n", "g">>}

\* the three checks pass (a value that is no dict, a score that is no number
\* raise TypeError, which the same except clause catches)
Validated(evaluation) ==
    /\ evaluation.kind = "object"
    /\ \A field \in required_fields : field \in DOMAIN evaluation.obj
    /\ evaluation.obj[KeyAssessment].kind = "string"
    /\ evaluation.obj[KeyAssessment].str \in valid_assessments
    /\ evaluation.obj[KeyInternalScore].kind = "number"
    /\ 0 <= evaluation.obj[KeyInternalScore].num
    /\ evaluation.obj[KeyInternalScore].num <= 100

\* evaluate_answer on the provider's output response.content[0].text: the
\* evaluation it returns, or the exception it raises
Returns(evaluation) == [raises |-> FALSE, evaluation |-> evaluation]
Raises == [raises |-> TRUE, evaluation |-> <<>>]
evaluate_answer(text) ==
    LET evaluation == json_loads(extract_json_from_response(text))
    IN IF evaluation.ok /\ Validated(evaluation.value)
       THEN Returns(evaluation.value.obj)
       ELSE Raises

\* ---- evaluate_answer_stream ----
\* the events it yields, as the dicts that json.dumps serialises
ContentEvent(char) == (KeyType :> JStr(<<"c", "o", "n", "t", "e", "n", "t">>)) @@ (KeyText :> JStr(<<char>>))
JsonErrorEvent ==
    (KeyType :> JStr(<<"e", "r", "r", "o", "r">>)) @@ (KeyMessage :> JStr(<<"F", "a", "i", "l", "e", "d", " ", "t", "o", " ", "p", "a", "r", "s", "e", " ", "e", "v", "a", "l", "u", "a", "t", "i", "o", "n", " ", "r", "e", "s", "p", "o", "n", "s", "e", " ", "a", "s", " ", "J", "S", "O", "N">>))
ErrorEvent == (KeyType :> JStr(<<"e", "r", "r", "o", "r">>)) @@ (KeyMessage :> JStr(<<"A", "n", "s", "w", "e", "r", " ", "e", "v", "a", "l", "u", "a", "t", "i", "o", "n", " ", "f", "a", "i", "l", "e", "d">>))
\* {'type': 'complete', **evaluation}: a key of evaluation replaces an equal key before it
CompleteEvent(evaluation) == evaluation @@ (KeyType :> JStr(<<"c", "o", "m", "p", "l", "e", "t", "e">>))

\* a loop body that forgets the escape at the end of a chunk
DecodeCharForgetful(st, char) ==
    IF ~st.inside_feedback
    THEN LET buffer == Append(st.feedback_buffer, char)
         IN IF EndsWith(buffer, <<"\"", "f", "e", "e", "d", "b", "a", "c", "k", "\"", ":", " ", "\"">>)
            THEN [st EXCEPT !.inside_feedback = TRUE, !.feedback_buffer = <<>>]
            ELSE [st EXCEPT !.feedback_buffer = buffer]
    ELSE IF char = "\\" THEN st
    ELSE IF char = "\"" THEN [st EXCEPT !.inside_feedback = FALSE, !.feedback_buffer = <<>>]
    ELSE [st EXCEPT !.yielded = Append(@, ContentEvent(char))]

\* the decoder's loop body for one character of a text chunk
DecodeChar(st, char) ==
    IF ~st.inside_feedback
    THEN LET buffer == Append(st.feedback_buffer, char)
         IN IF Contains(buffer, <<"\"", "f", "e", "e", "d", "b", "a", "c", "k", "\"">>) /\ char = "\"" /\ EndsWith(buffer, <<"\"", ":", " ", "\"">>)
            THEN [st EXCEPT !.inside_feedback = TRUE, !.feedback_buffer = <<>>]
            ELSE [st EXCEPT !.feedback_buffer = buffer]
    ELSE IF st.escape_next
         THEN [st EXCEPT !.yielded = Append(@, ContentEvent(char)), !.escape_next = FALSE]
    ELSE IF char = "\\" THEN [st EXCEPT !.escape_next = TRUE]
    ELSE IF char = "\"" THEN [st EXCEPT !.inside_feedback = FALSE, !.feedback_buffer = <<>>]
    ELSE [st EXCEPT !.yielded = Append(@, ContentEvent(char))]

\* for char in text_chunk: the loop body for every character in order. The chunk
\* is cut in two and the state after its first half is computed before the second
\* half is entered, which keeps the evaluation shallow.
RECURSIVE DecodeChunk(_, _)
DecodeChunk(st, text_chunk) ==
    IF text_chunk = <<>> THEN st
    ELSE IF Len(text_chunk) = 1 THEN DecodeChar(st, text_chunk[1])
    ELSE LET half == Len(text_chunk) \div 2
             first == DecodeChunk(st, SubSeq(text_chunk, 1, half))
         IN IF first.inside_feedback \in BOOLEAN
            THEN DecodeChunk(first, SubSeq(text_chunk, half + 1, Len(text_chunk)))
            ELSE first

\* an end of the generator that skips the checks on the parsed object
FinalEventUnchecked(text) ==
    LET evaluation == json_loads(extract_json_from_response(text))
    IN IF ~evaluation.ok THEN JsonErrorEvent ELSE CompleteEvent(evaluation.value.obj)

\* the event that ends the generator once the provider's stream is exhausted
FinalEvent(text) ==
    LET evaluation == json_loads(extract_json_from_response(text))
    IN IF ~evaluation.ok THEN JsonErrorEvent
       ELSE IF Validated(evaluation.value) THEN CompleteEvent(evaluation.value.obj)
       ELSE ErrorEvent

\* ---- outputs of the provider ----
\* the object of the system prompt's schema, written without and with a space
\* after the colons
TextCompact == <<"{", "\"", "a", "s", "s", "e", "s", "s", "m", "e", "n", "t", "\"", ":", "\"", "s", "t", "r", "o", "n", "g", "\"", ",", "\"", "i", "n", "t", "e", "r", "n", "a", "l", "_", "s", "c", "o", "r", "e", "\"", ":", "8", "5", ",", "\"", "f", "e", "e", "d", "b", "a", "c", "k", "\"", ":", "\"", "G", "r", "e", "a", "t", " ", "j", "o", "b", "!", "\"", "}">>
TextSpaced == <<"{", "\"", "a", "s", "s", "e", "s", "s", "m", "e", "n", "t", "\"", ":", " ", "\"", "s", "t", "r", "o", "n", "g", "\"", ",", " ", "\"", "i", "n", "t", "e", "r", "n", "a", "l", "_", "s", "c", "o", "r", "e", "\"", ":", " ", "8", "5", ",", " ", "\"", "f", "e", "e", "d", "b", "a", "c", "k", "\"", ":", " ", "\"", "G", "r", "e", "a", "t", " ", "j", "o", "b", "!", "\"", "}">>
\* feedback first, and no space after its colon only
TextFeedbackFirst == <<"{", "\"", "f", "e", "e", "d", "b", "a", "c", "k", "\"", ":", "\"", "H", "i", "\"", ",", "\"", "a", "s", "s", "e", "s", "s", "m", "e", "n", "t", "\"", ":", " ", "\"", "s", "t", "r", "o", "n", "g", "\"", ",", "\"", "i", "n", "t", "e", "r", "n", "a", "l", "_", "s", "c", "o", "r", "e", "\"", ":", " ", "8", "5", "}">>
\* escape sequences in the feedback: a line break and quotes
TextEscapes == <<"{", "\"", "a", "s", "s", "e", "s", "s", "m", "e", "n", "t", "\"", ":", " ", "\"", "d", "e", "v", "e", "l", "o", "p", "i", "n", "g", "\"", ",", " ", "\"", "i", "n", "t", "e", "r", "n", "a", "l", "_", "s", "c", "o", "r", "e", "\"", ":", " ", "6", "0", ",", " ", "\"", "f", "e", "e", "d", "b", "a", "c", "k", "\"", ":", " ", "\"", "T", "r", "y", "\\", "n", "\\", "\"", "x", "\\", "\"", "\"", "}">>
\* the lowest level, under the name of the system prompt and under the name of models/schemas.py
TextBeginning == <<"{", "\"", "a", "s", "s", "e", "s", "s", "m", "e", "n", "t", "\"", ":", " ", "\"", "b", "e", "g", "i", "n", "n", "i", "n", "g", "\"", ",", " ", "\"", "i", "n", "t", "e", "r", "n", "a", "l", "_", "s", "c", "o", "r", "e", "\"", ":", " ", "3", "0", ",", " ", "\"", "f", "e", "e", "d", "b", "a", "c", "k", "\"", ":", " ", "\"", "N", "o", "\"", "}">>
TextNeedsSupport == <<"{", "\"", "a", "s", "s", "e", "s", "s", "m", "e", "n", "t", "\"", ":", " ", "\"", "n", "e", "e", "d", "s", "_", "s", "u", "p", "p", "o", "r", "t", "\"", ",", " ", "\"", "i", "n", "t", "e", "r", "n", "a", "l", "_", "s", "c", "o", "r", "e", "\"", ":", " ", "3", "0", ",", " ", "\"", "f", "e", "e", "d", "b", "a", "c", "k", "\"", ":", " ", "\"", "N", "o", "\"", "}">>
\* a score out of range, a missing field, a text cut short, a value that is no object
TextScore150 == <<"{", "\"", "a", "s", "s", "e", "s", "s", "m", "e", "n", "t", "\"", ":", " ", "\"", "s", "t", "r", "o", "n", "g", "\"", ",", " ", "\"", "i", "n", "t", "e", "r", "n", "a", "l", "_", "s", "c", "o", "r", "e", "\"", ":", " ", "1", "5", "0", ",", " ", "\"", "f", "e", "e", "d", "b", "a", "c", "k", "\"", ":", " ", "\"", "T", "o", "p", "\"", "}">>
TextNoFeedback == <<"{", "\"", "a", "s", "s", "e", "s", "s", "m", "e", "n", "t", "\"", ":", " ", "\"", "s", "t", "r", "o", "n", "g", "\"", ",", " ", "\"", "i", "n", "t", "e", "r", "n", "a", "l", "_", "s", "c", "o", "r", "e", "\"", ":", " ", "8", "5", "}">>
TextCut == <<"{", "\"", "a", "s", "s", "e", "s", "s", "m", "e", "n", "t", "\"", ":", " ", "\"", "s", "t", "r", "o", "n", "g", "\"", ",", " ", "\"", "i", "n", "t", "e", "r", "n", "a", "l", "_", "s", "c", "o", "r", "e", "\"", ":", " ", "8", "5", ",", " ", "\"", "f", "e", "e", "d", "b", "a", "c", "k", "\"", ":", " ", "\"", "G", "r", "e">>
TextString == <<"\"", "w", "e", "l", "l", " ", "d", "o", "n", "e", "\"">>
\* the object in a markdown code block
TextFenced == <<Backtick, Backtick, Backtick, "j", "s", "o", "n", "\n", "{", "\"", "a", "s", "s", "e", "s", "s", "m", "e", "n", "t", "\"", ":", " ", "\"", "s", "t", "r", "o", "n", "g", "\"", ",", " ", "\"", "i", "n", "t", "e", "r", "n", "a", "l", "_", "s", "c", "o", "r", "e", "\"", ":", " ", "8", "5", ",", " ", "\"", "f", "e", "e", "d", "b", "a", "c", "k", "\"", ":", " ", "\"", "O", "k", "\"", "}", "\n", Backtick, Backtick, Backtick>>
\* one more key, named type
TextTypeKey == <<"{", "\"", "t", "y", "p", "e", "\"", ":", " ", "\"", "x", "\"", ",", " ", "\"", "a", "s", "s", "e", "s", "s", "m", "e", "n", "t", "\"", ":", " ", "\"", "s", "t", "r", "o", "n", "g", "\"", ",", " ", "\"", "i", "n", "t", "e", "r", "n", "a", "l", "_", "s", "c", "o", "r", "e", "\"", ":", " ", "8", "5", ",", " ", "\"", "f", "e", "e", "d", "b", "a", "c", "k", "\"", ":", " ", "\"", "O", "k", "\"", "}">>

ProviderTexts ==
    {TextCompact, TextSpaced, TextFeedbackFirst, TextEscapes, TextBeginning, TextNeedsSupport,
     TextScore150, TextNoFeedback, TextCut, TextString, TextFenced, TextTypeKey}

\* ---- one run of evaluate_answer_stream over one output of the provider ----
\* the generator is entered: nothing read, nothing yielded; the retry engine
\* and the session handlers are not running
StreamInit ==
    /\ raw \in ProviderTexts
    /\ response_text = <<>>
    /\ feedback_buffer = <<>>
    /\ inside_feedback = FALSE
    /\ escape_next = FALSE
    /\ yielded = <<>>
    /\ spc = "stream"
    /\ returned = <<>>
    /\ func = "function"
    /\ is_async = FALSE
    /\ max_retries = 0
    /\ attempt = 0
    /\ last_exception = <<>>
    /\ rpc = "idle"
    /\ delay = 0
    /\ waits = <<>>
    /\ trace = <<>>
    /\ raised = <<>>
    /\ timeout = 0
    /\ given = <<>>
    /\ call_kwargs = <<>>
    /\ calls = <<>>
    /\ sessions = <<>>
    /\ exercises = <<>>
    /\ handler = <<>>
    /\ started = 0
    /\ submitted = <<>>
    /\ faults = 0
    /\ sequential = TRUE
    /\ checked_out = <<>>
    /\ last_query = <<>>

\* a decoder that starts every chunk with an empty buffer
DecoderStatePerChunk(buffer, inside, escape, events) ==
    [feedback_buffer |-> <<>>, inside_feedback |-> inside, escape_next |-> escape,
     yielded |-> events]

\* the locals of the generator that the loop over a chunk starts from: they are
\* set before the loop over the stream and live across its events
DecoderState(buffer, inside, escape, events) ==
    [feedback_buffer |-> buffer, inside_feedback |-> inside, escape_next |-> escape,
     yielded |-> events]

\* a content_block_delta event: the next characters of the output, however the
\* provider cuts it into chunks
StreamDelta ==
    /\ spc = "stream"
    /\ Len(response_text) < Len(raw)
    /\ \E n \in 1..MaxChunk :
        LET text_chunk == SubSeq(raw, Len(response_text) + 1, Min(Len(response_text) + n, Len(raw)))
            st == DecodeChunk(DecoderState(feedback_buffer, inside_feedback, escape_next, yielded),
                              text_chunk)
        IN /\ response_text' = response_text \o text_chunk
           /\ feedback_buffer' = st.feedback_buffer
           /\ inside_feedback' = st.inside_feedback
           /\ escape_next' = st.escape_next
           /\ yielded' = st.yielded
    /\ UNCHANGED <<raw, spc, returned, rvars, svars>>

\* the provider call or the iteration of its stream raises (a transport error)
StreamRaises ==
    /\ spc = "stream"
    /\ yielded' = Append(yielded, ErrorEvent)
    /\ spc' = "raised"
    /\ UNCHANGED <<raw, response_text, feedback_buffer, inside_feedback, escape_next, returned, rvars, svars>>

\* the stream is exhausted: the accumulated text is parsed and checked
StreamEnds ==
    /\ spc = "stream"
    /\ response_text = raw
    /\ yielded' = Append(yielded, FinalEvent(response_text))
    /\ spc' = "done"
    /\ UNCHANGED <<raw, response_text, feedback_buffer, inside_feedback, escape_next, returned, rvars, svars>>

\* evaluate_answer is given the same output
EvaluateAnswer ==
    /\ spc \in {"stream", "done", "raised"}
    /\ returned = <<>>
    /\ returned' = <<evaluate_answer(raw)>>
    /\ UNCHANGED <<raw, response_text, feedback_buffer, inside_feedback, escape_next, yielded, spc, rvars, svars>>

StreamNext ==
    \/ StreamDelta
    \/ StreamRaises
    \/ StreamEnds
    \/ EvaluateAnswer

(***************************************************************************)
(* The session handlers of routers/sessions.py.                            *)
(*                                                                         *)
(* A handler suspends at its LLM call and releases the database between    *)
(* two execute_query calls, so each execute_query and each LLM call is one *)
(* atomic step and the steps of different handlers interleave.             *)
(***************************************************************************)
SessionIds == {"s1"}
Handlers == 1..NumHandlers

\* what execute_query can do: return, raise psycopg.errors.QueryCanceled
\* (statement timeout), raise another database error
DbOutcomes == {"ok", "QueryCanceled", "Error"}

\* request values
\* request.exercise_index as submit_answer and generate_stream read it: any integer.
\* The handlers (sessions.py 415, 577) and the tests read and post this field;
\* models/schemas.py AnswerSubmitRequest does not declare it.
ExerciseIndexValues == {-(NumExercises + 1)} \cup (-1..NumExercises)
HintsUsedValues == {0, 2, 3}                    \* AnswerSubmitRequest.hints_used (ge=0, le=3)
HintLevelValues == {<<>>} \cup { <<l>> : l \in 1..MAX_HINTS }   \* HintRequest.hint_level (ge=1, le=3)
StatusValues == {"in_progress", "completed"}  \* SessionStatus
UpdateIndexValues == {1, NumExercises}        \* SessionUpdateRequest.current_exercise_index

\* the exceptions the provider call of an evaluation can end with
EvalFailures == {"RateLimitError", "APITimeoutError", "ValueError"}

NoEval == [assessment |-> <<>>, internal_score |-> 0]

NoHint == [level |-> 0, rid |-> 0]

NoUpdate == [current_exercise_index |-> <<>>, status |-> <<>>, confidence_rating |-> <<>>]

\* SessionUpdateRequest; a confidence_rating is drawn only where it decides
\* something, which is when it is the one field given
UpdateRequests ==
    { u \in [current_exercise_index : {<<>>} \cup { <<i>> : i \in UpdateIndexValues },
             status : {<<>>} \cup { <<s>> : s \in StatusValues },
             confidence_rating : {<<>>, <<4>>}] :
        u.confidence_rating = <<>> \/ (u.current_exercise_index = <<>> /\ u.status = <<>>) }

\* config/database.py: `with pool.connection() as conn` takes a connection of the
\* pool; leaving the block returns it, after commit() or, when the query raised,
\* after rollback()
Checkout(held) == held + 1
Checkin(held) == held - 1

\* a connection that stays with the caller of execute_query
ExecuteQueryKeepsConnection(held) == Checkout(held)

\* the connections a handler holds once execute_query has returned or raised
AfterExecuteQuery(held) == Checkin(Checkout(held))

\* config/settings.py: DB_POOL_MAX_SIZE
DB_POOL_MAX_SIZE == 10

\* no query made yet
NoQuery == [held |-> 0, peak |-> 0, transaction |-> "none", raised |-> "ok"]

\* a connection that goes back to the pool only after a commit
ReturnedAfterCommitOnly(taken, outcome) == IF outcome = "ok" THEN Checkin(taken) ELSE taken

\* leaving `with pool.connection() as conn`, by the end of the block or by an
\* exception: the connection goes back to the pool
Returned(taken, outcome) == Checkin(taken)

\* get_db_connection around a block that ends with outcome ("ok", or the
\* exception the query raised), entered by a caller holding held connections:
\* conn.commit() at the end of the block, conn.rollback() and `raise e` after an
\* exception. peak is the number of connections held inside the block.
get_db_connection(held, outcome) ==
    LET taken == Checkout(held)
    IN [held |-> Returned(taken, outcome),
        peak |-> taken,
        transaction |-> IF outcome = "ok" THEN "commit" ELSE "rollback",
        raised |-> outcome]

\* a handler that is not running
IdleHandler ==
    [op |-> "none", pc |-> "idle", sid |-> "s1", rid |-> 0,
     exercise_index |-> 0, hints_used |-> 0, hint_level |-> <<>>, upd |-> NoUpdate,
     status_read |-> <<>>, attempts |-> <<>>, exercises |-> <<>>,
     attempt_number |-> 0, current_idx |-> 0, level |-> 0, hint_text |-> NoHint,
     evaluation |-> NoEval,
     events |-> <<>>, result |-> 0, llm |-> FALSE, wrote |-> FALSE, nth |-> 0,
     failed |-> FALSE, hints_remaining |-> 0, db |-> "ok"]

\* create_session: the row INSERTed for a new session
NewSessionRow ==
    [status |-> "in_progress", current_exercise_index |-> 0, attempts |-> <<>>,
     completed_at |-> FALSE]

\* Python's seq[i] for a list of length n: defined for -n <= i < n
PyIndexOk(i, n) == -n <= i /\ i < n
PyPos(i, n) == IF i < 0 THEN n + i + 1 ELSE i + 1

RECURSIVE CountIdx(_, _)
\* len([a for a in attempts if a.get("exercise_index") == idx])
CountIdx(attempts, idx) ==
    IF attempts = <<>> THEN 0
    ELSE (IF attempts[Len(attempts)].exercise_index = idx THEN 1 ELSE 0)
         + CountIdx(SubSeq(attempts, 1, Len(attempts) - 1), idx)

\* attempt_number counted over the whole array instead of the exercise's attempts
AttemptNumberAll(attempts, idx) == Len(attempts) + 1

\* attempt_number = len(exercise_attempts) + 1
AttemptNumber(attempts, idx) == CountIdx(attempts, idx) + 1

\* the completed check left out
NeverCompleted(status) == FALSE

\* session["status"] == "completed"
IsCompleted(status) == status = "completed"

\* no index is refused
IndexNeverPastEnd(idx, n) == FALSE

\* exercise_idx >= len(exercises)
IndexPastEnd(idx, n) == idx >= n

\* a hint that is offered whatever was used
HintAlwaysAvailable(hints_used) == TRUE

\* hint_available = request.hints_used < ExerciseConstants.MAX_HINTS
HintAvailable(hints_used) == hints_used < MAX_HINTS

\* the attempt record built from the request and the evaluation; rid stands for
\* answer_text and created_at, which tell two submissions apart
MakeAttempt(h) ==
    [exercise_index |-> h.exercise_index,
     attempt_number |-> h.attempt_number,
     hints_used |-> h.hints_used,
     assessment |-> h.evaluation.assessment,
     internal_score |-> h.evaluation.internal_score,
     rid |-> h.rid]

\* an append made on the stored array instead of the array the handler read
AppendToStored(stored, read, a) == Append(stored, a)

\* attempts.append(attempt); UPDATE sessions SET attempts = <the whole array>
WrittenAttempts(stored, read, a) == Append(read, a)

\* the except chain of submit_answer applied to a failed evaluate_answer, which
\* wraps every failure in Exception("Answer evaluation failed: <message>"): 429 when
\* the message holds "rate limit" or "429", 500 otherwise
SubmitEvalErrorStatus(f) == IF f = "RateLimitError" THEN 429 ELSE 500

\* str(e) holds "rate limit" or "429": the message of a status error of the SDK
\* begins with "Error code: <status>"
MessageNamesRateLimit(e) == IsInstance(e, "APIStatusError") /\ e.status_code = 429

\* evaluate_answer: except Exception as e:
\*     raise Exception(f"Answer evaluation failed: {str(e)}")
\* The new exception has the message of e, and neither its class nor its
\* attributes nor its response.
EvaluateAnswerRaised(e) ==
    [cls |-> "Exception", retry_after |-> <<>>, header_retry_after |-> <<>>,
     names_rate_limit |-> MessageNamesRateLimit(e)]

\* utils/error_handler.extract_retry_after: the attribute retry_after, else the
\* retry-after header of error.response
extract_retry_after(error) ==
    IF error.retry_after # <<>> THEN error.retry_after ELSE error.header_retry_after

\* the except chain of submit_answer applied to the exception x that reached it:
\* the status of the response and the retry_after of its body (the Retry-After
\* header is set exactly when the body has retry_after)
SubmitAnswerError(x) ==
    IF x.cls = "APITimeoutError" THEN [status |-> 504, retry_after |-> <<>>]
    ELSE IF x.cls = "QueryCanceled" THEN [status |-> 504, retry_after |-> <<>>]
    ELSE IF x.cls = "RateLimitError" THEN [status |-> 429, retry_after |-> extract_retry_after(x)]
    ELSE IF x.names_rate_limit THEN [status |-> 429, retry_after |-> <<>>]
    ELSE [status |-> 500, retry_after |-> <<>>]

\* the handler returns: its response is kept, the arrays it had read are gone
Finish(h, code) ==
    [h EXCEPT !.pc = "done", !.result = code, !.attempts = <<>>, !.exercises = <<>>]
FinishEvent(h, ev) ==
    [h EXCEPT !.pc = "done", !.events = Append(@, ev), !.attempts = <<>>, !.exercises = <<>>]

Free(h) == handler[h].pc \in {"idle", "done"}

\* a request is served by the first free handler; a sequential client sends it
\* when no other request of its is being served
CanStart(h) ==
    /\ Free(h)
    /\ \A g \in Handlers : g < h => ~Free(g)
    /\ sequential => \A g \in Handlers : Free(g)
    /\ started < (IF sequential THEN MaxRequestsSeq ELSE MaxRequests)

\* the hints of levels 1 and 2 of an exercise, generated and stored by two hint
\* requests (rid 0) of a session that ended before the behaviour starts
EarlierHints == <<[level |-> 1, rid |-> 0], [level |-> 2, rid |-> 0]>>

\* the three Attempts of exercise_index 0 stored by three streamed submissions
\* (rid 0) that were answered before the behaviour starts
EarlierAttempts ==
    [k \in 1..3 |->
        [exercise_index |-> 0, attempt_number |-> k, hints_used |-> 0,
         assessment |-> <<"s", "t", "r", "o", "n", "g">>, internal_score |-> 85,
         rid |-> 0]]

\* one session as create_session INSERTs it, no request in flight; the module's
\* exercises have no hints yet, or its first exercise has the hints of levels 1
\* and 2, or the session holds three earlier Attempts; the retry engine is not
\* running
Init ==
    /\ sessions \in { [s \in SessionIds |-> NewSessionRow],
                      [s \in SessionIds |-> [NewSessionRow EXCEPT !.attempts = EarlierAttempts]] }
    /\ exercises \in { [e \in 1..NumExercises |-> <<>>],
                       [e \in 1..NumExercises |-> IF e = 1 THEN EarlierHints ELSE <<>>] }
    /\ sessions["s1"].attempts # <<>> => exercises[1] = <<>>
    /\ handler = [h \in Handlers |-> IdleHandler]
    /\ started = 0
    /\ submitted = [s \in SessionIds |->
                        [i \in ExerciseIndexValues |-> CountIdx(sessions[s].attempts, i)]]
    /\ faults = 0
    /\ sequential \in BOOLEAN
    /\ checked_out = [h \in Handlers |-> 0]
    /\ last_query = [h \in Handlers |-> NoQuery]
    /\ func = "function"
    /\ is_async = FALSE
    /\ max_retries = 0
    /\ attempt = 0
    /\ last_exception = <<>>
    /\ rpc = "idle"
    /\ delay = 0
    /\ waits = <<>>
    /\ trace = <<>>
    /\ raised = <<>>
    /\ timeout = 0
    /\ given = <<>>
    /\ call_kwargs = <<>>
    /\ calls = <<>>
    /\ raw = <<>>
    /\ response_text = <<>>
    /\ feedback_buffer = <<>>
    /\ inside_feedback = FALSE
    /\ escape_next = FALSE
    /\ yielded = <<>>
    /\ spc = "idle"
    /\ returned = <<>>

\* ---- a request arrives; the fields of its body are drawn where the handler
\* first reads them ----
StartSubmit(h) ==
    /\ CanStart(h)
    /\ \E s \in SessionIds, op \in {"submit", "stream"} :
        handler' = [handler EXCEPT ![h] =
            [IdleHandler EXCEPT !.op = op, !.pc = "verify", !.sid = s, !.rid = started + 1]]
    /\ started' = started + 1
    /\ last_query' = [last_query EXCEPT ![h] = NoQuery]
    /\ UNCHANGED <<sessions, exercises, submitted, faults, sequential, checked_out, rvars, dvars>>

\* hint levels a request body can carry that HintRequest (ge=1, le=3) refuses
InvalidHintLevels == {0, MAX_HINTS + 1}

\* A body that fails HintRequest's validation is answered 422 before request_hint
\* is entered.
StartHint(h) ==
    /\ CanStart(h)
    /\ \E s \in SessionIds :
        \/ handler' = [handler EXCEPT ![h] =
              [IdleHandler EXCEPT !.op = "hint", !.pc = "verify", !.sid = s, !.rid = started + 1]]
        \/ \E l \in InvalidHintLevels :
              handler' = [handler EXCEPT ![h] =
                  [IdleHandler EXCEPT !.op = "hint", !.pc = "done", !.sid = s, !.rid = started + 1,
                                      !.hint_level = <<l>>, !.result = 422]]
    /\ started' = started + 1
    /\ last_query' = [last_query EXCEPT ![h] = NoQuery]
    /\ UNCHANGED <<sessions, exercises, submitted, faults, sequential, checked_out, rvars, dvars>>

StartUpdate(h) ==
    /\ CanStart(h)
    /\ \E s \in SessionIds :
        handler' = [handler EXCEPT ![h] =
            [IdleHandler EXCEPT !.op = "update", !.pc = "verify", !.sid = s, !.rid = started + 1]]
    /\ started' = started + 1
    /\ last_query' = [last_query EXCEPT ![h] = NoQuery]
    /\ UNCHANGED <<sessions, exercises, submitted, faults, sequential, checked_out, rvars, dvars>>

\* a step that ends in a fault counts it; the faults of one behaviour are bounded
Fault(isFault) ==
    IF isFault THEN faults < MaxFaults /\ faults' = faults + 1 ELSE faults' = faults

\* the error a handler ends with: an HTTP status, or for the stream an error event
Reject(h, code) ==
    IF h.op = "stream" THEN FinishEvent(h, [type |-> "error"]) ELSE Finish(h, code)

\* a failed execute_query ends the handler with the status of its except chain
DbFails(h, code504, code500) ==
    /\ Fault(TRUE)
    /\ \E db \in DbOutcomes \ {"ok"} :
        handler' = [handler EXCEPT ![h] =
            Reject([@ EXCEPT !.db = db], IF db = "QueryCanceled" THEN code504 ELSE code500)]

\* ---- verify_session_ownership (every handler's first query) ----
VerifyOwnership(h) ==
    /\ handler[h].pc = "verify"
    /\ LET me == handler[h] IN
       \/ DbFails(h, 504, 500)
       \/ /\ Fault(TRUE)
          /\ handler' = [handler EXCEPT ![h] = Reject(me, 403)]
       \/ /\ Fault(FALSE)
          /\ me.op # "update"
          /\ handler' = [handler EXCEPT ![h] = [me EXCEPT !.pc = "read"]]
       \/ /\ Fault(FALSE)
          /\ me.op = "update"
          /\ \E u \in UpdateRequests :
                handler' = [handler EXCEPT ![h] =
                    IF u = NoUpdate THEN Finish(me, 400)
                    ELSE [me EXCEPT !.upd = u, !.pc = "write"]]
    /\ checked_out' = [checked_out EXCEPT ![h] = AfterExecuteQuery(@)]
    /\ last_query' = [last_query EXCEPT ![h] = get_db_connection(checked_out[h], handler'[h].db)]
    /\ UNCHANGED <<sessions, exercises, started, submitted, sequential, rvars, dvars>>

\* ---- update_session: the UPDATE built from the fields that are not None ----
\* an UPDATE that also resets the attempts
UpdatedRowResetsAttempts(row, u) ==
    [row EXCEPT
        !.current_exercise_index = IF u.current_exercise_index # <<>> THEN u.current_exercise_index[1] ELSE @,
        !.status = IF u.status # <<>> THEN u.status[1] ELSE @,
        !.completed_at = IF u.status = <<"completed">> THEN TRUE ELSE @,
        !.attempts = <<>>]

UpdatedRow(row, u) ==
    [row EXCEPT
        !.current_exercise_index = IF u.current_exercise_index # <<>> THEN u.current_exercise_index[1] ELSE @,
        !.status = IF u.status # <<>> THEN u.status[1] ELSE @,
        !.completed_at = IF u.status = <<"completed">> THEN TRUE ELSE @]

UpdateWrite(h) ==
    /\ handler[h].pc = "write"
    /\ handler[h].op = "update"
    /\ \/ DbFails(h, 504, 500) /\ sessions' = sessions
       \/ /\ Fault(FALSE)
          /\ sessions' = [sessions EXCEPT ![handler[h].sid] = UpdatedRow(@, handler[h].upd)]
          /\ handler' = [handler EXCEPT ![h] = Finish([@ EXCEPT !.wrote = TRUE], 200)]
    /\ checked_out' = [checked_out EXCEPT ![h] = AfterExecuteQuery(@)]
    /\ last_query' = [last_query EXCEPT ![h] = get_db_connection(checked_out[h], handler'[h].db)]
    /\ UNCHANGED <<exercises, started, submitted, sequential, rvars, dvars>>

\* ---- submit_answer and generate_stream: the session query and the checks ----
SubmitRead(h) ==
    /\ handler[h].pc = "read"
    /\ handler[h].op \in {"submit", "stream"}
    /\ \/ DbFails(h, 504, 500) /\ submitted' = submitted
       \/ /\ Fault(FALSE)
          /\ \E i \in ExerciseIndexValues, u \in HintsUsedValues :
             LET row == sessions[handler[h].sid]
                 n == Len(exercises)
                 me == [handler[h] EXCEPT !.status_read = <<row.status>>]
                 req == [me EXCEPT !.exercise_index = i, !.hints_used = u]
             IN
             /\ handler' = [handler EXCEPT ![h] =
                 IF IsCompleted(row.status) THEN Reject(me, 400)
                 ELSE IF IndexPastEnd(i, n) THEN Reject(req, 400)
                 ELSE IF ~PyIndexOk(i, n) THEN Reject(req, 500)
                 ELSE LET got == [req EXCEPT
                                    !.attempts = row.attempts,
                                    !.attempt_number = AttemptNumber(row.attempts, i),
                                    !.nth = submitted[me.sid][i] + 1,
                                    !.pc = "llm"]
                      IN IF me.op = "stream"
                         THEN [got EXCEPT !.events = Append(@,
                                  [type |-> "start", attempt_number |-> got.attempt_number,
                                   hint_available |-> HintAvailable(u)])]
                         ELSE got]
             /\ submitted' = IF handler'[h].pc = "llm"
                             THEN [submitted EXCEPT ![handler[h].sid][i] = @ + 1]
                             ELSE submitted
    /\ checked_out' = [checked_out EXCEPT ![h] = AfterExecuteQuery(@)]
    /\ last_query' = [last_query EXCEPT ![h] = get_db_connection(checked_out[h], handler'[h].db)]
    /\ UNCHANGED <<sessions, exercises, started, sequential, rvars, dvars>>

\* the parameters of evaluate_answer and of evaluate_answer_stream, and the
\* keyword arguments submit_answer and generate_stream call them with
EvaluateAnswerParams == {"exercise", "answer_text"}
EvaluateAnswerStreamParams == {"exercise", "answer_text"}
SubmitAnswerKwargs == {"exercise", "answer_text", "hints_used"}
GenerateStreamKwargs == {"exercise", "answer_text"}

\* a call by keyword binds when the function has a parameter of every name given;
\* otherwise Python raises TypeError before the function's body runs
CallBinds(kwargs, params) == kwargs \subseteq params

\* ---- generate_stream: async for chunk in evaluate_answer_stream(...) ----
\* the provider outputs drawn for the streams of the session handlers
StreamTexts == {TextSpaced, TextEscapes, TextBeginning, TextNeedsSupport, TextCut, TextTypeKey}

\* where the provider's stream can break: before its first chunk, half way,
\* after its last chunk
CutPoints(text) == {0, Len(text) \div 2, Len(text)}

\* the events evaluate_answer_stream yields in one run: the stream delivers the
\* first cut characters and then raises, or delivers the whole text
StreamRun(text, cut, raises) ==
    LET st == DecodeChunk([feedback_buffer |-> <<>>, inside_feedback |-> FALSE,
                           escape_next |-> FALSE, yielded |-> <<>>],
                          SubSeq(text, 1, IF raises THEN cut ELSE Len(text)))
    IN Append(st.yielded, IF raises THEN ErrorEvent ELSE FinalEvent(text))

\* data.get("type") == "complete"
IsComplete(data) == KeyType \in DOMAIN data /\ data[KeyType] = JStr(<<"c", "o", "m", "p", "l", "e", "t", "e">>)

\* data.get("type"), as the name the session handlers' events carry
EventTypeName(data) ==
    IF KeyType \notin DOMAIN data THEN "none"
    ELSE IF data[KeyType] = JStr(<<"c", "o", "m", "p", "l", "e", "t", "e">>) THEN "complete"
    ELSE IF data[KeyType] = JStr(<<"e", "r", "r", "o", "r">>) THEN "error"
    ELSE IF data[KeyType] = JStr(<<"c", "o", "n", "t", "e", "n", "t">>) THEN "content"
    ELSE "other"

\* what generate_stream yields for one chunk: the complete event enriched, any
\* other chunk as it is
Forward(data, h) ==
    IF IsComplete(data)
    THEN [type |-> "complete", attempt_number |-> h.attempt_number,
          hint_available |-> HintAvailable(h.hints_used)]
    ELSE [type |-> EventTypeName(data)]

\* the fields of evaluation_result that go into the attempt
EvaluationOf(data) ==
    [assessment |-> data[KeyAssessment].str, internal_score |-> data[KeyInternalScore].num]

\* what evaluate_answer returns after its validation
Evaluations ==
    { EvaluationOf(evaluate_answer(text).evaluation) :
        text \in { t \in StreamTexts : ~evaluate_answer(t).raises } }

\* the generator ends without a write: evaluation_result is None
FinishStream(h) == [h EXCEPT !.pc = "done", !.attempts = <<>>, !.exercises = <<>>]

\* the output is not valid JSON, or fails one of the checks
InvalidOutput(text) ==
    LET evaluation == json_loads(extract_json_from_response(text))
    IN ~evaluation.ok \/ ~Validated(evaluation.value)

\* the runs of evaluate_answer_stream the session handlers can see: every text
\* delivered whole, and every text broken at each of its cut points; failed
\* tells that the output was invalid or that the stream broke
StreamRuns ==
    { [chunks |-> StreamRun(text, Len(text), FALSE), failed |-> InvalidOutput(text)] :
        text \in StreamTexts }
    \cup UNION { { [chunks |-> StreamRun(text, cut, TRUE), failed |-> TRUE] :
                    cut \in CutPoints(text) } : text \in StreamTexts }

\* One run of evaluate_answer_stream, consumed to its end. A run that does not
\* end with a complete event counts as a failed LLM call.
StreamEvaluate(h) ==
    /\ handler[h].pc = "llm"
    /\ handler[h].op = "stream"
    /\ CallBinds(GenerateStreamKwargs, EvaluateAnswerStreamParams)
    /\ \E run \in StreamRuns :
            LET chunks == run.chunks
                last == chunks[Len(chunks)]
                me == [handler[h] EXCEPT !.llm = TRUE, !.failed = run.failed,
                          !.events = @ \o [k \in 1..Len(chunks) |-> Forward(chunks[k], handler[h])]]
            IN /\ Fault(~IsComplete(last))
               /\ handler' = [handler EXCEPT ![h] =
                     IF IsComplete(last)
                     THEN [me EXCEPT !.evaluation = EvaluationOf(last), !.pc = "write"]
                     ELSE FinishStream(me)]
    /\ UNCHANGED <<sessions, exercises, started, submitted, sequential, checked_out, last_query, rvars, dvars>>

\* ---- submit_answer: await evaluate_answer(...) ----
\* A TypeError of the call is caught by `except Exception` and answered with 500.
SubmitEvaluate(h) ==
    /\ handler[h].pc = "llm"
    /\ handler[h].op = "submit"
    /\ \/ /\ ~CallBinds(SubmitAnswerKwargs, EvaluateAnswerParams)
          /\ Fault(FALSE)
          /\ handler' = [handler EXCEPT ![h] = Finish(@, 500)]
       \/ /\ CallBinds(SubmitAnswerKwargs, EvaluateAnswerParams)
          /\ Fault(FALSE)
          /\ \E ev \in Evaluations :
                handler' = [handler EXCEPT ![h] = [@ EXCEPT !.llm = TRUE, !.evaluation = ev, !.pc = "write"]]
       \/ /\ CallBinds(SubmitAnswerKwargs, EvaluateAnswerParams)
          /\ Fault(TRUE)
          /\ \E f \in EvalFailures :
                handler' = [handler EXCEPT ![h] = Finish([@ EXCEPT !.llm = TRUE], SubmitEvalErrorStatus(f))]
    /\ UNCHANGED <<sessions, exercises, started, submitted, sequential, checked_out, last_query, rvars, dvars>>

\* ---- submit_answer and generate_stream: the UPDATE of sessions.attempts ----
SubmitWrite(h) ==
    /\ handler[h].pc = "write"
    /\ handler[h].op \in {"submit", "stream"}
    /\ \/ DbFails(h, 504, 500) /\ sessions' = sessions
       \/ /\ Fault(FALSE)
          /\ LET me == handler[h]
                 row == sessions[me.sid]
             IN /\ sessions' = [sessions EXCEPT ![me.sid].attempts =
                                    WrittenAttempts(row.attempts, me.attempts, MakeAttempt(me))]
                /\ handler' = [handler EXCEPT ![h] = Finish([me EXCEPT !.wrote = TRUE], 200)]
    /\ checked_out' = [checked_out EXCEPT ![h] = AfterExecuteQuery(@)]
    /\ last_query' = [last_query EXCEPT ![h] = get_db_connection(checked_out[h], handler'[h].db)]
    /\ UNCHANGED <<exercises, started, submitted, sequential, rvars, dvars>>

\* ---- request_hint: the session query, the checks and the hint level ----
RECURSIVE MaxHintsUsed(_, _)
\* max(a.get("hints_used", 0) for a in exercise_attempts), 0 when there are none
MaxHintsUsed(attempts, idx) ==
    IF attempts = <<>> THEN 0
    ELSE LET a == attempts[Len(attempts)]
             m == MaxHintsUsed(SubSeq(attempts, 1, Len(attempts) - 1), idx)
         IN IF a.exercise_index = idx /\ a.hints_used > m THEN a.hints_used ELSE m

\* the hint level of a request: the requested one, or max_hints_used + 1
ResolvedLevel(hint_level, attempts, idx) ==
    IF hint_level # <<>> THEN hint_level[1] ELSE MaxHintsUsed(attempts, idx) + 1

\* a hint is generated for every request, stored or not
HintAlwaysMissing(hints, hint_level) == TRUE

\* if len(hints) < hint_level: the requested hint is not stored yet
HintMissing(hints, hint_level) == Len(hints) < hint_level

HintRead(h) ==
    /\ handler[h].pc = "read"
    /\ handler[h].op = "hint"
    /\ \/ DbFails(h, 504, 500)
       \/ /\ Fault(FALSE)
          /\ \E l \in HintLevelValues :
             LET row == sessions[handler[h].sid]
                 n == Len(exercises)
                 idx == row.current_exercise_index
                 lvl == ResolvedLevel(l, row.attempts, idx)
                 me == [handler[h] EXCEPT !.status_read = <<row.status>>, !.current_idx = idx]
                 req == [me EXCEPT !.hint_level = l]
             IN handler' = [handler EXCEPT ![h] =
                 IF IsCompleted(row.status) THEN Finish(me, 400)
                 ELSE IF IndexPastEnd(idx, n) THEN Finish(me, 400)
                 ELSE IF ~PyIndexOk(idx, n) THEN Finish(me, 500)
                 ELSE IF ~(1 <= lvl /\ lvl <= MAX_HINTS) THEN Finish(req, 400)
                 ELSE LET hints == exercises[PyPos(idx, n)] IN
                      IF HintMissing(hints, lvl)
                      THEN [req EXCEPT !.level = lvl, !.attempts = row.attempts,
                                       !.exercises = exercises, !.pc = "llm"]
                      ELSE Finish([req EXCEPT !.level = lvl, !.hint_text = hints[lvl],
                                               !.hints_remaining = MAX_HINTS - lvl], 200)]
    /\ checked_out' = [checked_out EXCEPT ![h] = AfterExecuteQuery(@)]
    /\ last_query' = [last_query EXCEPT ![h] = get_db_connection(checked_out[h], handler'[h].db)]
    /\ UNCHANGED <<sessions, exercises, started, submitted, sequential, rvars, dvars>>

\* ---- request_hint: await generate_single_hint(...); hints.append(new_hint) ----
HintGenerate(h) ==
    /\ handler[h].pc = "llm"
    /\ handler[h].op = "hint"
    /\ LET me == handler[h]
           pos == PyPos(me.current_idx, Len(me.exercises))
       IN \/ /\ Fault(FALSE)
             /\ handler' = [handler EXCEPT ![h] =
                   [me EXCEPT !.llm = TRUE, !.pc = "write",
                              !.exercises[pos] = Append(@, [level |-> me.level, rid |-> me.rid])]]
          \/ /\ Fault(TRUE)
             /\ handler' = [handler EXCEPT ![h] = Finish([me EXCEPT !.llm = TRUE], 500)]
    /\ UNCHANGED <<sessions, exercises, started, submitted, sequential, checked_out, last_query, rvars, dvars>>

\* ---- request_hint: UPDATE modules SET exercises = <the whole array>, then
\* hint_text = hints[hint_level - 1]; the inner except turns every failure of the
\* UPDATE into a 500 ----
HintWrite(h) ==
    /\ handler[h].pc = "write"
    /\ handler[h].op = "hint"
    /\ \/ DbFails(h, 500, 500) /\ exercises' = exercises
       \/ /\ Fault(FALSE)
          /\ LET me == handler[h]
                 hints == me.exercises[PyPos(me.current_idx, Len(me.exercises))]
             IN /\ exercises' = me.exercises
                /\ handler' = [handler EXCEPT ![h] =
                       IF me.level <= Len(hints)
                       THEN Finish([me EXCEPT !.wrote = TRUE, !.hint_text = hints[me.level],
                                               !.hints_remaining = MAX_HINTS - me.level], 200)
                       ELSE Finish([me EXCEPT !.wrote = TRUE], 500)]
    /\ checked_out' = [checked_out EXCEPT ![h] = AfterExecuteQuery(@)]
    /\ last_query' = [last_query EXCEPT ![h] = get_db_connection(checked_out[h], handler'[h].db)]
    /\ UNCHANGED <<sessions, started, submitted, sequential, rvars, dvars>>

Step(h) ==
    \/ StartSubmit(h)
    \/ StartHint(h)
    \/ StartUpdate(h)
    \/ VerifyOwnership(h)
    \/ UpdateWrite(h)
    \/ SubmitRead(h)
    \/ SubmitEvaluate(h)
    \/ StreamEvaluate(h)
    \/ SubmitWrite(h)
    \/ HintRead(h)
    \/ HintGenerate(h)
    \/ HintWrite(h)

Next == \E h \in Handlers : Step(h)

\* request handlers over one session and its module, sent by a client that is
\* sequential or not
Spec == Init /\ [][Next]_vars

\* one invocation of a provider call
SpecRetry == RetryInit /\ [][RetryNext]_vars

\* one run of the streaming decoder, and evaluate_answer on the same output
SpecStream == StreamInit /\ [][StreamNext]_vars

(***************************************************************************)
(* Properties of the session handlers (specification Spec)                 *)
(***************************************************************************)
Stored(s) == sessions[s].attempts

\* a submission that got its evaluation and wrote its Attempt
StoredSubmission(h) ==
    /\ handler[h].pc = "done"
    /\ handler[h].op \in {"submit", "stream"}
    /\ handler[h].wrote

\* the attempt_number the handler reported: in the 200 response of submit_answer,
\* in the complete event of the stream
Reported(h, n) ==
    IF handler[h].op = "submit"
    THEN handler[h].result = 200 /\ handler[h].attempt_number = n
    ELSE \E k \in 1..Len(handler[h].events) :
            handler[h].events[k].type = "complete" /\ handler[h].events[k].attempt_number = n

\* the rejection of a request by a business rule: HTTP 400, or for the stream one
\* error event and nothing else
BusinessRuleError(h) ==
    IF h.op = "stream" THEN h.events = <<[type |-> "error"]>> ELSE h.result = 400

\* a submission that passed the checks of its handler (session in progress,
\* exercise_index addresses an exercise) and has ended
AcceptedSubmission(h) ==
    /\ handler[h].pc = "done"
    /\ handler[h].op \in {"submit", "stream"}
    /\ handler[h].nth > 0
    /\ handler[h].exercise_index \in 0..(NumExercises - 1)

\* C1: when the client sends one request at a time and no database or provider call
\* fails, the n-th accepted submission for an exercise_index reports attempt_number
\* n and its Attempt is stored with attempt_number n, whatever was submitted to other
\* indexes in between.
C1_SequentialAttemptNumber ==
    (sequential /\ faults = 0) =>
        \A h \in Handlers :
            AcceptedSubmission(h) =>
                /\ Reported(h, handler[h].nth)
                /\ \E k \in 1..Len(Stored(handler[h].sid)) :
                    /\ Stored(handler[h].sid)[k].rid = handler[h].rid
                    /\ Stored(handler[h].sid)[k].exercise_index = handler[h].exercise_index
                    /\ Stored(handler[h].sid)[k].attempt_number = handler[h].nth

\* C2: a submission (streamed or not) or a hint request that reads status completed
\* ends in that step with a business-rule error, without an LLM call and without a
\* write: the sessions table and the module's hint lists are as they were.
C2_CompletedRejects ==
    [][\A h \in Handlers :
            (handler[h].pc = "read" /\ handler'[h].status_read = <<"completed">>) =>
                /\ handler'[h].pc = "done"
                /\ BusinessRuleError(handler'[h])
                /\ ~handler'[h].llm
                /\ ~handler'[h].wrote
                /\ sessions' = sessions
                /\ exercises' = exercises]_vars

\* a hint request or a submission was answered on a completed session
C2_Witness ==
    \E h \in Handlers :
        /\ handler[h].op \in {"submit", "stream", "hint"}
        /\ handler[h].status_read = <<"completed">>
        /\ handler[h].pc = "done"
        /\ sessions[handler[h].sid].status = "completed"

\* C3: a stored status completed stays completed.
C3_CompletedIsTerminal ==
    [][\A s \in DOMAIN sessions :
            sessions[s].status = "completed" => sessions'[s].status = "completed"]_vars

SameNumber(g, h) ==
    /\ g # h
    /\ StoredSubmission(g) /\ StoredSubmission(h)
    /\ handler[g].sid = handler[h].sid
    /\ handler[g].exercise_index = handler[h].exercise_index
    /\ handler[g].attempt_number = handler[h].attempt_number
    /\ Reported(g, handler[g].attempt_number)
    /\ Reported(h, handler[h].attempt_number)

InStored(h) == \E k \in 1..Len(Stored(handler[h].sid)) : Stored(handler[h].sid)[k].rid = handler[h].rid

C6_StoredNumbersInOrder ==
    \A s \in DOMAIN sessions :
        \A k \in 1..Len(Stored(s)) :
            Stored(s)[k].attempt_number
                = 1 + CountIdx(SubSeq(Stored(s), 1, k - 1), Stored(s)[k].exercise_index)

\* two concurrent submissions to one exercise_index are both stored, numbered 1, 2
C6_Witness ==
    /\ ~sequential
    /\ StoredSubmission(1) /\ StoredSubmission(2)
    /\ Len(Stored("s1")) = 2
    /\ Stored("s1")[1].exercise_index = Stored("s1")[2].exercise_index
    /\ Stored("s1")[2].attempt_number = 2

(***************************************************************************)
(* Properties of the retry engine (specification SpecRetry)                *)
(***************************************************************************)
\* an exception of the provider's API, and a failure the engine is to retry: rate
\* limit, timeout, transport error, or a status error with a retryable code
IsApiError(e) == e.cls \in {"RateLimitError", "APIStatusError", "APITimeoutError", "APIError"}
IsRetryableFailure(e) ==
    /\ IsApiError(e)
    /\ e.cls = "APIStatusError" => e.status_code \in {429, 500, 502, 503, 504}

AllFailedRetryable == \A i \in 1..Len(trace) : IsRetryableFailure(trace[i])

\* C7: the wrapper calls at most max_retries + 1 times; a call that returns ends it
\* at once with no wait after it; when max_retries + 1 calls failed with retryable
\* errors, max_retries waits were made and the last call's error is raised.
C7_RetryBudget ==
    Decorated(func) =>
        /\ Len(trace) <= max_retries + 1
        /\ Len(waits) <= max_retries
        /\ \A i \in 1..Len(trace) :
              trace[i] = Ok => i = Len(trace) /\ rpc = "returned" /\ Len(waits) = i - 1
        /\ (AllFailedRetryable /\ Len(trace) = max_retries + 1) =>
              /\ rpc = "raised"
              /\ Len(waits) = max_retries
              /\ raised = <<trace[Len(trace)]>>

\* three calls failed with three kinds of retryable error under max_retries = 2
C7_Witness ==
    /\ Decorated(func)
    /\ max_retries = 2
    /\ Len(trace) = 3
    /\ AllFailedRetryable
    /\ Cardinality({ trace[i].cls : i \in 1..3 }) = 3
    /\ rpc = "raised"
    /\ Len(waits) = 2

\* C8: a failure with a status code outside {429,500,502,503,504}, or with an
\* exception that is not an API error, is the last call: it is raised as it is,
\* with no wait after it.
C8_NonRetryableFailsAtOnce ==
    Decorated(func) =>
        \A i \in 1..Len(trace) :
            (trace[i] # Ok /\ ~IsRetryableFailure(trace[i])) =>
                /\ i = Len(trace)
                /\ rpc = "raised"
                /\ raised = <<trace[i]>>
                /\ Len(waits) = i - 1

\* the first call fails with status 400 while two retries are left
C8_Witness ==
    /\ Decorated(func)
    /\ max_retries = 2
    /\ Len(trace) = 1
    /\ trace[1].cls = "APIStatusError"
    /\ trace[1].status_code = 400
    /\ rpc = "raised"
    /\ waits = <<>>

\* the retry-after hint a rate-limit failure carries: the attribute, else the header
RetryAfterHint(e) == IF e.retry_after # <<>> THEN e.retry_after ELSE e.header_retry_after

\* C9: the wait after a rate-limit failure that carries a retry-after hint of N > 0
\* seconds is N seconds.
C9_RetryAfterHonoured ==
    (Decorated(func) /\ rpc = "sleep") =>
        LET e == trace[Len(trace)] IN
            (e.cls = "RateLimitError" /\ RetryAfterHint(e) # <<>> /\ RetryAfterHint(e)[1] > 0) =>
                delay = RetryAfterHint(e)[1] * 1000

\* C10: a provider call that starts an evaluation and fails with retryable errors
\* only is given up after MAX_RETRIES + 1 calls, not before.
C10_EvaluationIsRetried ==
    (/\ func \in {"_call_claude_for_evaluation", "_call_claude_for_evaluation_stream"}
     /\ rpc = "raised"
     /\ AllFailedRetryable) =>
        Len(trace) = MAX_RETRIES + 1

(***************************************************************************)
(* Properties of the streamed submission (specifications Spec, SpecStream) *)
(***************************************************************************)
\* the events of the given type among the events a handler has sent
EventsOfType(h, type) == { k \in 1..Len(handler[h].events) : handler[h].events[k].type = type }

\* C11: a streamed submission whose provider output is not valid JSON or fails a
\* check, or whose provider stream breaks, has sent an error event and no complete
\* event and has written no Attempt, however many content events it had sent.
C11_FailedStreamStoresNothing ==
    \A h \in Handlers :
        (handler[h].op = "stream" /\ handler[h].failed) =>
            /\ handler[h].pc = "done"
            /\ ~handler[h].wrote
            /\ EventsOfType(h, "error") # {}
            /\ EventsOfType(h, "complete") = {}

\* a stream failed after three content events, while the other handler stored an
\* Attempt
C11_Witness ==
    \E h, g \in Handlers :
        /\ handler[h].op = "stream" /\ handler[h].failed
        /\ Cardinality(EventsOfType(h, "content")) >= 3
        /\ g # h /\ handler[g].op = "stream" /\ handler[g].wrote

ContentEvents(text) == [k \in 1..Len(text) |-> ContentEvent(text[k])]

\* C13: when the provider streams TextCompact (no space after the colons) to its
\* end, the generator has yielded one content event for each character of
\* "Great job!", in order, and then one complete event with assessment strong,
\* internal_score 85 and feedback "Great job!".
C13_CompactTextStreamsFeedback ==
    (raw = TextCompact /\ spc = "done") =>
        yielded = ContentEvents(<<"G", "r", "e", "a", "t", " ", "j", "o", "b", "!">>)
                  \o << (KeyType :> JStr(<<"c", "o", "m", "p", "l", "e", "t", "e">>)) @@ (KeyAssessment :> JStr(<<"s", "t", "r", "o", "n", "g">>))
                        @@ (KeyInternalScore :> JNum(85)) @@ (KeyFeedback :> JStr(<<"G", "r", "e", "a", "t", " ", "j", "o", "b", "!">>)) >>

\* the characters the content events among the given events carry, in order
ContentOf(events) ==
    LET at == { k \in 1..Len(events) : EventTypeName(events[k]) = "content" }
    IN [n \in 1..Cardinality(at) |->
          events[CHOOSE k \in at : Cardinality({ j \in at : j < k }) = n - 1][KeyText].str[1]]

\* the value of the feedback field of a valid output
FeedbackOf(text) == evaluate_answer(text).evaluation[KeyFeedback].str

\* C14: for every provider output that parses to a valid evaluation object, every
\* character yielded in a content event is a character of the value of the
\* feedback field, whatever the order of the keys and the space around the colons.
C14_ContentIsFeedbackOnly ==
    ~InvalidOutput(raw) =>
        \A n \in 1..Len(ContentOf(yielded)) :
            \E k \in 1..Len(FeedbackOf(raw)) : ContentOf(yielded)[n] = FeedbackOf(raw)[k]

\* C15: for every provider output streamed to its end, the generator ends with an
\* error event exactly when evaluate_answer raises for the same output, and
\* otherwise ends with a complete event whose assessment, internal_score and
\* feedback are the values evaluate_answer returns.
C15_StreamMatchesEvaluateAnswer ==
    (spc = "done" /\ returned # <<>>) =>
        LET last == yielded[Len(yielded)]
            result == returned[1]
        IN /\ result.raises <=> EventTypeName(last) = "error"
           /\ ~result.raises =>
                /\ IsComplete(last)
                /\ \A field \in required_fields : last[field] = result.evaluation[field]

\* models/schemas.py: the values of the enum Assessment
Assessment == {<<"s", "t", "r", "o", "n", "g">>, <<"d", "e", "v", "e", "l", "o", "p", "i", "n", "g">>, <<"n", "e", "e", "d", "s", "_", "s", "u", "p", "p", "o", "r", "t">>}

MaxUsedAt(attempts, idx) ==
    LET used == { attempts[k].hints_used :
                    k \in { j \in 1..Len(attempts) : attempts[j].exercise_index = idx } }
    IN IF used = {} THEN 0 ELSE SetMax(used)

C18_HintListBounded ==
    \A e \in 1..NumExercises : Len(exercises[e]) <= MAX_HINTS

\* the first exercise has MAX_HINTS hints, the last of them generated by a request
\* of this behaviour, and a later request for level MAX_HINTS was answered from
\* the stored list
C18_Witness ==
    /\ Len(exercises[1]) = MAX_HINTS
    /\ exercises[1][MAX_HINTS].rid > 0
    /\ \E h \in Handlers :
        /\ handler[h].op = "hint" /\ handler[h].pc = "done" /\ handler[h].result = 200
        /\ handler[h].level = MAX_HINTS /\ ~handler[h].llm
        /\ handler[h].rid > exercises[1][MAX_HINTS].rid

\* the positions of an exercise's stored hint list that hold a hint generated for
\* the given level
StoredAtLevel(e, level) == { j \in 1..Len(exercises[e]) : exercises[e][j].level = level }

\* C19: when the client sends one request at a time, a hint request whose level
\* resolves to a level for which a generated hint is stored for the current
\* exercise is answered with that stored hint, without an LLM call.
C19_StoredLevelIsReused ==
    [][sequential =>
        \A h \in Handlers :
            LET me == handler[h]
                after == handler'[h]
                e == PyPos(after.current_idx, NumExercises)
            IN ( /\ me.op = "hint" /\ me.pc = "read" /\ after.pc # "read"
                 /\ faults' = faults
                 /\ after.level > 0
                 /\ StoredAtLevel(e, after.level) # {} )
               => /\ after.pc = "done"
                  /\ after.result = 200
                  /\ after.hint_text \in { exercises[e][j] : j \in StoredAtLevel(e, after.level) }
      ]_vars

\* C20: no step replaces a hint stored at a position of an exercise's hint list or
\* makes a stored hint list shorter, for any exercise of the module.
C20_HintListsOnlyGrow ==
    [][\A e \in 1..NumExercises :
          /\ Len(exercises'[e]) >= Len(exercises[e])
          /\ \A j \in 1..Len(exercises[e]) : exercises'[e][j] = exercises[e][j]
      ]_vars

(***************************************************************************)
(* Properties of the rejections and failures of the session handlers       *)
(* (specification Spec)                                                    *)
(***************************************************************************)
\* the handler ended with an error, having made no LLM call and no write, in a
\* step that left the sessions and the module as they were
RejectedOutright(h, code) ==
    /\ handler'[h].pc = "done"
    /\ IF handler'[h].op = "stream"
       THEN handler'[h].events = <<[type |-> "error"]>>
       ELSE handler'[h].result = code
    /\ ~handler'[h].llm /\ ~handler'[h].wrote
    /\ sessions' = sessions /\ exercises' = exercises

EvaluationExhausted(f) ==
    /\ f = "_call_claude_for_evaluation"
    /\ rpc = "raised"
    /\ raised # <<>>
    /\ Len(trace) = max_retries + 1

C24_StatementTimeoutIs504 ==
    \A h \in Handlers :
        (handler[h].pc = "done" /\ handler[h].op \in {"update", "submit", "hint"}
            /\ handler[h].db # "ok") =>
            handler[h].result = (IF handler[h].db = "QueryCanceled" THEN 504 ELSE 500)

\* C26: a submit or hint handler that awaits its LLM call (the waits between the
\* retries of that call included) holds no connection of the pool: the
\* connections of its reads have been returned, the one of its write is not taken
\* yet.
C26_NoConnectionAcrossLlmCall ==
    \A h \in Handlers :
        (handler[h].pc = "llm" /\ handler[h].op \in {"submit", "stream", "hint"}) =>
            /\ checked_out[h] = 0
            /\ ~handler[h].wrote

\* a stream handler and a hint handler both await the provider after their reads
C26_Witness ==
    \E g, h \in Handlers :
        /\ handler[g].pc = "llm" /\ handler[g].op = "stream"
        /\ handler[h].pc = "llm" /\ handler[h].op = "hint"
        /\ handler[g].status_read # <<>> /\ handler[h].status_read # <<>>

\* C27: every invocation a decorated function gets in one call of the wrapper has
\* the same keyword arguments: those the caller passed, with timeout = the
\* decorator's timeout added when the caller passed no timeout, and with the
\* caller's timeout kept when the caller passed one.
C27_TimeoutKwarg ==
    Decorated(func) =>
        \A k \in 1..Len(calls) :
            /\ DOMAIN calls[k] = DOMAIN given \cup {"timeout"}
            /\ \A key \in DOMAIN given : calls[k][key] = given[key]
            /\ "timeout" \notin DOMAIN given => calls[k]["timeout"] = timeout

\* three invocations with the caller's timeout, which is not the decorator's
C27_Witness ==
    /\ Decorated(func)
    /\ Len(calls) = 3
    /\ "timeout" \in DOMAIN given
    /\ given["timeout"] # timeout
    /\ calls[3]["timeout"] = given["timeout"]

\* the delay before the next attempt was computed by the backoff, for an error
\* whose base delay is base (milliseconds)
SleepsOnBackoff(base) ==
    /\ Decorated(func)
    /\ rpc = "sleep"
    /\ LET e == trace[Len(trace)]
       IN IF e.cls \in {"RateLimitError", "APITimeoutError"}
          THEN base = 2000 /\ (e.retry_after = <<>> \/ e.retry_after = <<0>>)
          ELSE base = BASE_DELAY_MS

\* lo <= d <= hi, in milliseconds
Within(d, lo, hi) == lo <= d /\ d <= hi

ToBeRetried(e) ==
    \/ e.cls \in {"RateLimitError", "APITimeoutError", "APIError"}
    \/ e.cls = "APIStatusError" /\ e.status_code \in {429, 500, 502, 503, 504}

\* C29: should_retry(error, attempt, max_retries) is (no retry, 0.0) whenever
\* attempt > max_retries; otherwise it is (retry, a delay > 0) for a rate limit, a
\* timeout, a generic API error and a status error with a code of
\* {429, 500, 502, 503, 504}, and no retry for a status error with another code
\* and for an exception that is not an API error. The retry engine waits exactly
\* when should_retry said so.
C29_ShouldRetryDecision ==
    /\ \A e \in Errors, mr \in 0..MaxRetriesBound, a \in 1..(MaxRetriesBound + 2), j \in Jitter :
            LET r == should_retry(e, a, mr, j)
            IN IF a > mr THEN r = <<FALSE, 0>>
               ELSE IF ToBeRetried(e) THEN r[1] /\ r[2] > 0
               ELSE ~r[1]
    /\ (Decorated(func) /\ rpc = "sleep") =>
            /\ ToBeRetried(trace[Len(trace)])
            /\ Len(trace) <= max_retries
            /\ delay > 0
    /\ (Decorated(func) /\ rpc = "raised" /\ Len(trace) <= max_retries) =>
            ~ToBeRetried(trace[Len(trace)])

\* a status error 404 on the first of three allowed attempts left the wrapper
\* without a wait
C29_Witness ==
    /\ Decorated(func)
    /\ max_retries = 2
    /\ rpc = "raised"
    /\ waits = <<>>
    /\ trace = <<Err("APIStatusError", 404, <<>>, <<>>)>>
    /\ raised = <<Err("APIStatusError", 404, <<>>, <<>>)>>

\* the events a streamed submission has sent are well formed: a start event can
\* only be the first one; a content event comes after the start event and before
\* any complete or error event; a complete event repeats the attempt_number and
\* hint_available of the start event
StreamWellFormed(events) ==
    \A k \in 1..Len(events) :
        /\ events[k].type = "start" => k = 1
        /\ events[k].type = "content" =>
                /\ events[1].type = "start"
                /\ \A m \in 1..(k - 1) : events[m].type \notin {"complete", "error"}
        /\ events[k].type = "complete" =>
                /\ events[1].type = "start"
                /\ events[k].attempt_number = events[1].attempt_number
                /\ events[k].hint_available = events[1].hint_available

\* the start event of a submission with hints_used u to index i of a session
\* whose stored attempts are attempts
StartEvent(attempts, i, u) ==
    [type |-> "start", attempt_number |-> 1 + CountIdx(attempts, i),
     hint_available |-> (u < MAX_HINTS)]

ChunkOf(before, after) == SubSeq(after, Len(before) + 1, Len(after))

\* C31: inside the feedback value a backslash is not emitted and escapes the next
\* character, which is emitted as it is and does not close the field even when it
\* is a double quote; a double quote that is not escaped is not emitted, closes
\* the field and empties the buffer; the same holds when the backslash is the
\* last character of one chunk and the escaped character the first of the next.
C31_EscapeInFeedback ==
    [][(inside_feedback /\ response_text' # response_text) =>
        LET chunk == ChunkOf(response_text, response_text')
            c == chunk[1]
        IN /\ (Len(chunk) = 1 /\ escape_next) =>
                /\ yielded' = Append(yielded, ContentEvent(c))
                /\ inside_feedback' /\ ~escape_next'
           /\ (Len(chunk) = 1 /\ ~escape_next /\ c = "\\") =>
                /\ yielded' = yielded
                /\ inside_feedback' /\ escape_next'
           /\ (Len(chunk) = 1 /\ ~escape_next /\ c = "\"") =>
                /\ yielded' = yielded
                /\ ~inside_feedback' /\ feedback_buffer' = <<>>
           /\ (Len(chunk) = 2 /\ ~escape_next /\ c = "\\") =>
                /\ yielded' = Append(yielded, ContentEvent(chunk[2]))
                /\ inside_feedback' /\ ~escape_next'
           /\ (Len(chunk) = 2 /\ escape_next /\ chunk[2] = "\"") =>
                /\ yielded' = Append(yielded, ContentEvent(c))
                /\ ~inside_feedback' /\ feedback_buffer' = <<>>
      ]_vars

\* a chunk ended with the backslash and the next chunk begins with the double
\* quote it escapes
C31_Witness ==
    /\ spc = "stream"
    /\ inside_feedback
    /\ escape_next
    /\ Len(response_text) < Len(raw)
    /\ response_text[Len(response_text)] = "\\"
    /\ raw[Len(response_text) + 1] = "\""

\* C32: whatever queries succeeded and failed, no handler holds a connection
\* between its queries and none ever held more than the pool has; a handler's
\* last query either ended normally, committed and returned its connection, or
\* raised, was rolled back, returned its connection and passed its exception on
\* to the handler, which ended with that error.
C32_ConnectionAlwaysReturned ==
    \A h \in Handlers :
        LET q == last_query[h]
        IN /\ checked_out[h] = 0
           /\ q.held = 0
           /\ q.peak <= DB_POOL_MAX_SIZE
           /\ q.transaction = "commit" <=> (q.peak > 0 /\ q.raised = "ok")
           /\ q.transaction = "rollback" <=> (q.peak > 0 /\ q.raised # "ok")
           /\ q.raised # "ok" => (handler[h].pc = "done" /\ handler[h].db = q.raised)

\* one request ended on a cancelled query, which was rolled back, and another
\* one committed its write
C32_Witness ==
    \E g, h \in Handlers :
        /\ last_query[g].transaction = "rollback"
        /\ last_query[g].raised = "QueryCanceled"
        /\ handler[g].pc = "done"
        /\ last_query[h].transaction = "commit"
        /\ handler[h].pc = "done" /\ handler[h].wrote

\* the decoder's state after the given text arrived as one chunk
DecodedWhole(text) == DecodeChunk(DecoderState(<<>>, FALSE, FALSE, <<>>), text)

\* C33: however the provider cuts its output into chunks, the decoder is where
\* it would be had the text come as one chunk: the content events yielded, the
\* buffer and the two flags after any prefix are those of the prefix decoded as
\* a whole, and a run to the end yields the same content events followed by the
\* same final event.
C33_ChunkingIndependent ==
    LET whole == DecodedWhole(response_text)
    IN /\ spc = "stream" =>
            /\ yielded = whole.yielded
            /\ feedback_buffer = whole.feedback_buffer
            /\ inside_feedback = whole.inside_feedback
            /\ escape_next = whole.escape_next
       /\ spc = "done" => yielded = Append(DecodedWhole(raw).yielded, FinalEvent(raw))
       /\ spc = "raised" => yielded = Append(whole.yielded, ErrorEvent)

\* the output with the escapes was streamed to its end, in some chunking
C33_Witness ==
    /\ spc = "done"
    /\ raw = TextEscapes
    /\ Len(yielded) > 3
    /\ IsComplete(yielded[Len(yielded)])

C38_CompletedAtIffCompleted ==
    \A s \in DOMAIN sessions :
        sessions[s].completed_at <=> IsCompleted(sessions[s].status)

\* C39: when the client sends one request at a time, every step that ends a hint
\* request with an explicit hint_level either answers 200 with the hint stored at
\* position hint_level of the current exercise's list, a hint generated for that
\* level, or answers an error and leaves every stored hint list as it was.
C39_HintRequestAtomic ==
    [][sequential =>
        \A h \in Handlers :
            LET me == handler[h]
                after == handler'[h]
                e == PyPos(after.current_idx, NumExercises)
            IN ( /\ me.op = "hint" /\ me.pc # "done" /\ after.pc = "done"
                 /\ after.hint_level # <<>> )
               => IF after.result = 200
                  THEN /\ after.level <= Len(exercises'[e])
                       /\ after.hint_text = exercises'[e][after.level]
                       /\ after.hint_text.level = after.level
                  ELSE exercises' = exercises
      ]_vars

\* the step left every column of every session row but attempts as it was, and
\* every row but the given one wholly
OnlyAttemptsOf(sid) ==
    \A s \in DOMAIN sessions :
        /\ sessions'[s] = [sessions[s] EXCEPT !.attempts = sessions'[s].attempts]
        /\ s # sid => sessions'[s] = sessions[s]

\* C40: every step of a hint request leaves the session rows as they were; every
\* step of a submission, streamed or not, leaves the module's exercises, the
\* other sessions and, of its own session, the status, the
\* current_exercise_index and completed_at as they were; every step of an
\* update-session leaves the attempts of every session and the module's
\* exercises as they were.
C40_OperationsKeepToTheirPart ==
    [][\A h \in Handlers :
         handler'[h] # handler[h] =>
            LET after == handler'[h]
            IN /\ after.op = "hint" => sessions' = sessions
               /\ after.op \in {"submit", "stream"} =>
                     exercises' = exercises /\ OnlyAttemptsOf(after.sid)
               /\ after.op = "update" =>
                     /\ exercises' = exercises
                     /\ \A s \in DOMAIN sessions : sessions'[s].attempts = Stored(s)
      ]_vars

\* a streamed submission has stored its Attempt after the earlier ones, a hint
\* request has stored a hint, and an update has completed the session
C40_Witness ==
    /\ \E k \in 1..Len(Stored("s1")) : k > 1 /\ Stored("s1")[k].rid > 0
    /\ \E e \in 1..NumExercises : \E j \in 1..Len(exercises[e]) : exercises[e][j].rid > 0
    /\ sessions["s1"].completed_at
    /\ \E h \in Handlers :
          handler[h].op = "update" /\ handler[h].pc = "done" /\ handler[h].wrote

====
